---- MODULE Spec2Model ----
(***************************************************************************)
(* Order lifecycle of the Orders microservice (OrdersService and           *)
(* OrdersController, src/src/orders/orders.service.ts) over its Prisma     *)
(* store (schema in src/unnamed/part_000).                                 *)
(*                                                                         *)
(* Every service method is an async function: it runs up to its next       *)
(* `await` of a store call, the store call takes effect atomically, and    *)
(* the method continues later.  One action models one such stretch: the    *)
(* call together with its first store access, the write, and the emission  *)
(* of events with the return.  Other requests may run between them.        *)
(***************************************************************************)
EXTENDS Integers, Sequences, FiniteSets

\* Number of orders the store may hold (the model's bound).
MaxOrders == 1

\* Longest item list of the generated createOrder payloads (a bound).
MaxItems == 2

\* ---------------------------------------------------------------- values

\* enum OrderStatus of the Prisma schema.
OrderStatus ==
  {"PENDING", "CONFIRMED", "PREPARING", "READY_FOR_DELIVERY",
   "OUT_FOR_DELIVERY", "DELIVERED", "CANCELLED", "FAILED"}

\* The value of the nullable column stripeChargeId before payment.
NullCharge == "null"

\* Identifiers a request may carry: every identifier the store can hand out
\* and one it never hands out.
OrderIds == 1 .. (MaxOrders + 1)

\* Requests are served by workers; a worker serves one request at a time.
Workers == {"a", "b"}

\* The CreateOrderDto payload of the lifecycle runs.
DtoA ==
  [customerId |-> "u1", restaurantId |-> "r1", restaurantName |-> "R1",
   items |-> << [dishId |-> "d1", name |-> "n1", quantity |-> 2, price |-> 10],
                [dishId |-> "d2", name |-> "n2", quantity |-> 1, price |-> 5] >>,
   deliveryFee |-> 3, useLoyaltyPoints |-> FALSE]

CreateOrderDtos == {DtoA}

\* DtoA paid for with loyalty points.
DtoLoyalty == [DtoA EXCEPT !.useLoyaltyPoints = TRUE]

\* Prices, quantities and delivery fees of the generated payloads.
ItemPrices == {0, 3}
ItemQuantities == {1, 2}
DeliveryFees == {0, 1}

\* The item lists of the generated payloads: every list of up to MaxItems
\* items, the empty list among them (items is only required to be an array).
ItemLists ==
  UNION {[1 .. k -> {[dishId |-> "d1", name |-> "n1", quantity |-> q,
                      price |-> p] : q \in ItemQuantities, p \in ItemPrices}] :
           k \in 0 .. MaxItems}

\* CreateOrderDto payloads of the createOrder runs.
CreateOrderInputs ==
  {DtoA, DtoLoyalty}
    \cup {[customerId |-> "u1", restaurantId |-> "r1", restaurantName |-> "R1",
           items |-> its, deliveryFee |-> f, useLoyaltyPoints |-> b] :
            its \in ItemLists, f \in DeliveryFees, b \in BOOLEAN}

\* PaidOrderDto payloads without the order id.
PaidOrderDtos ==
  {[stripePaymentId |-> "ch_1", receiptUrl |-> "url_1"],
   [stripePaymentId |-> "ch_2", receiptUrl |-> "url_2"]}

\* Courier identifiers the courierAssigned payload may carry (any string).
CourierIds == {"", "k1"}

\* The message patterns the controller passes on to paymentSessionExpired.
SessionPatterns == {"payment_session_abandoned", "payment_session_expired"}

\* Values Math.random() may return, as <<numerator, denominator>> in [0, 1).
RandomValues == {<<0, 1>>, <<9999, 10000>>}

\* ------------------------------------------------------- pure functions

\* Number.prototype.toString() of a non-negative integer: its decimal digits.
DigitChars == <<"0", "1", "2", "3", "4", "5", "6", "7", "8", "9">>

RECURSIVE NumberToString(_)
NumberToString(n) ==
  IF n < 10 THEN <<DigitChars[n + 1]>>
  ELSE NumberToString(n \div 10) \o <<DigitChars[(n % 10) + 1]>>

\* generatePin as Math.floor(Math.random() * 10000).toString().
generatePinNoOffset(r) == NumberToString((r[1] * 10000) \div r[2])

\* generatePin: Math.floor(1000 + Math.random() * 9000).toString()
generatePin(r) == NumberToString(1000 + ((r[1] * 9000) \div r[2]))

\* PINs a verifyOrderPin payload may carry (any string).
PinInputs == {<<>>} \cup {generatePin(r) : r \in RandomValues}

\* validTransitions with PREPARING also allowed to skip READY_FOR_DELIVERY.
validTransitionsSkip(s) ==
  CASE s = "PENDING" -> {"CONFIRMED", "CANCELLED", "FAILED"}
    [] s = "CONFIRMED" -> {"PREPARING", "CANCELLED"}
    [] s = "PREPARING" -> {"READY_FOR_DELIVERY", "OUT_FOR_DELIVERY"}
    [] s = "READY_FOR_DELIVERY" -> {"OUT_FOR_DELIVERY"}
    [] s = "OUT_FOR_DELIVERY" -> {"DELIVERED", "FAILED"}
    [] OTHER -> {}

\* validTransitions with a cancelled order allowed to be confirmed again.
validTransitionsReopen(s) ==
  CASE s = "PENDING" -> {"CONFIRMED", "CANCELLED", "FAILED"}
    [] s = "CONFIRMED" -> {"PREPARING", "CANCELLED"}
    [] s = "PREPARING" -> {"READY_FOR_DELIVERY"}
    [] s = "READY_FOR_DELIVERY" -> {"OUT_FOR_DELIVERY"}
    [] s = "OUT_FOR_DELIVERY" -> {"DELIVERED", "FAILED"}
    [] s = "CANCELLED" -> {"CONFIRMED"}
    [] OTHER -> {}

\* validTransitions with PREPARING listed among its own successors.
validTransitionsSelfLoop(s) ==
  CASE s = "PENDING" -> {"CONFIRMED", "CANCELLED", "FAILED"}
    [] s = "CONFIRMED" -> {"PREPARING", "CANCELLED"}
    [] s = "PREPARING" -> {"PREPARING", "READY_FOR_DELIVERY"}
    [] s = "READY_FOR_DELIVERY" -> {"OUT_FOR_DELIVERY"}
    [] s = "OUT_FOR_DELIVERY" -> {"DELIVERED", "FAILED"}
    [] OTHER -> {}

\* validTransitions with a failed order allowed back to PENDING, to pay again.
validTransitionsRetry(s) ==
  CASE s = "PENDING" -> {"CONFIRMED", "CANCELLED", "FAILED"}
    [] s = "CONFIRMED" -> {"PREPARING", "CANCELLED"}
    [] s = "PREPARING" -> {"READY_FOR_DELIVERY"}
    [] s = "READY_FOR_DELIVERY" -> {"OUT_FOR_DELIVERY"}
    [] s = "OUT_FOR_DELIVERY" -> {"DELIVERED", "FAILED"}
    [] s = "FAILED" -> {"PENDING"}
    [] OTHER -> {}

\* validTransitions: the table of allowed status changes.
validTransitions(s) ==
  CASE s = "PENDING" -> {"CONFIRMED", "CANCELLED", "FAILED"}
    [] s = "CONFIRMED" -> {"PREPARING", "CANCELLED"}
    [] s = "PREPARING" -> {"READY_FOR_DELIVERY"}
    [] s = "READY_FOR_DELIVERY" -> {"OUT_FOR_DELIVERY"}
    [] s = "OUT_FOR_DELIVERY" -> {"DELIVERED", "FAILED"}
    [] s = "DELIVERED" -> {}
    [] s = "CANCELLED" -> {}
    [] s = "FAILED" -> {}

\* The reduce of createOrder adding the prices only.
RECURSIVE SumItemsPrices(_)
SumItemsPrices(items) ==
  IF items = <<>> THEN 0
  ELSE SumItemsPrices(SubSeq(items, 1, Len(items) - 1))
         + items[Len(items)].price

\* items.reduce((sum, item) => sum + item.price * item.quantity, 0)
RECURSIVE SumItems(_)
SumItems(items) ==
  IF items = <<>> THEN 0
  ELSE SumItems(SubSeq(items, 1, Len(items) - 1))
         + items[Len(items)].price * items[Len(items)].quantity

\* The amount the service's earlier version stored: no delivery fee.
TotalAmountNoDelivery(dto) == SumItems(dto.items)

\* totalAmountWithDelivery of createOrder.
TotalAmountWithDelivery(dto) ==
  IF dto.useLoyaltyPoints THEN SumItems(dto.items)
  ELSE SumItems(dto.items) + dto.deliveryFee

\* ------------------------------------------------------------------ state

VARIABLES
  orders,    \* the Order collection: id -> row (with its OrderItem rows)
  receipts,  \* the OrderReceipt collection, a sequence of rows
  pc,        \* per worker: "idle", "write", "emit" or "done"
  call,      \* per worker: the request being served
  found,     \* per worker: what the first store read returned (<<>> = null)
  updated,   \* per worker: what the store write returned
  ret,       \* per worker: the outcome handed to the caller
  out        \* per worker: the events this request has emitted, in order

vars == <<orders, receipts, pc, call, found, updated, ret, out>>

NoCall == [op |-> "none"]
NoRet == [kind |-> "none"]

Init ==
  /\ orders = <<>>
  /\ receipts = <<>>
  /\ pc = [w \in Workers |-> "idle"]
  /\ call = [w \in Workers |-> NoCall]
  /\ found = [w \in Workers |-> <<>>]
  /\ updated = [w \in Workers |-> <<>>]
  /\ ret = [w \in Workers |-> NoRet]
  /\ out = [w \in Workers |-> <<>>]

\* ---------------------------------------------------------- store helpers

\* this.order.findUnique({ where: { id } }): <<row>>, or <<>> for null.
FindUnique(id) == IF id \in DOMAIN orders THEN <<orders[id]>> ELSE <<>>

\* RpcException({ message, status })
RpcException(message, status) ==
  [kind |-> "RpcException", message |-> message, status |-> status]

\* The rejection of a store call by the Prisma client.
PrismaError(code) == [kind |-> "PrismaError", code |-> code]

\* A value returned to the caller.
Returned(v) == [kind |-> "ok", value |-> v]

\* client.emit(name, payload)
Event(name, payload) == [name |-> name, payload |-> payload]

\* A request that ends: its outcome is handed over and nothing is pending.
Finish(w, c, r) ==
  /\ pc' = [pc EXCEPT ![w] = "done"]
  /\ call' = [call EXCEPT ![w] = c]
  /\ ret' = [ret EXCEPT ![w] = r]

\* A request that goes on to its store write.
GoWrite(w, c) ==
  /\ pc' = [pc EXCEPT ![w] = "write"]
  /\ call' = [call EXCEPT ![w] = c]
  /\ UNCHANGED ret

\* ------------------------------------------------------------ createOrder

\* The row order.create stores for a dto: schema defaults for the rest.
NewOrder(id, dto) ==
  [id |-> id,
   totalAmount |-> TotalAmountWithDelivery(dto),
   status |-> "PENDING",
   paid |-> FALSE,
   stripeChargeId |-> NullCharge,
   restaurantId |-> dto.restaurantId,
   restaurantName |-> dto.restaurantName,
   customerId |-> dto.customerId,
   pin_code |-> <<>>,
   courierId |-> "",
   items |-> [i \in 1 .. Len(dto.items) |->
               [dishId |-> dto.items[i].dishId, name |-> dto.items[i].name,
                quantity |-> dto.items[i].quantity, price |-> dto.items[i].price]]]

\* createOrder up to the end of `await this.order.create(...)`.
CreateOrder(w, dto) ==
  /\ pc[w] = "idle"
  /\ Len(orders) < MaxOrders
  /\ LET id == Len(orders) + 1
         row == NewOrder(id, dto)
     IN /\ orders' = Append(orders, row)
        /\ updated' = [updated EXCEPT ![w] = <<row>>]
  /\ pc' = [pc EXCEPT ![w] = "emit"]
  /\ call' = [call EXCEPT ![w] = [op |-> "createOrder", dto |-> dto]]
  /\ UNCHANGED <<receipts, found, ret, out>>

\* CreateOrderEmit with the event carrying the payload only.
CreateOrderEmitNoId(w) ==
  /\ pc[w] = "emit"
  /\ call[w].op = "createOrder"
  /\ LET order == updated[w][1]
     IN /\ out' = [out EXCEPT ![w] =
                    <<Event("order_created", [dto |-> call[w].dto])>>]
        /\ ret' = [ret EXCEPT ![w] = Returned([orderId |-> order.id])]
  /\ pc' = [pc EXCEPT ![w] = "done"]
  /\ UNCHANGED <<orders, receipts, call, found, updated>>

\* createOrder after the store confirmed the write: emit and return.
CreateOrderEmit(w) ==
  /\ pc[w] = "emit"
  /\ call[w].op = "createOrder"
  /\ LET order == updated[w][1]
     IN /\ out' = [out EXCEPT ![w] =
                    <<Event("order_created",
                            [dto |-> call[w].dto, orderId |-> order.id])>>]
        /\ ret' = [ret EXCEPT ![w] = Returned([orderId |-> order.id])]
  /\ pc' = [pc EXCEPT ![w] = "done"]
  /\ UNCHANGED <<orders, receipts, call, found, updated>>

\* ------------------------------------------------------ updateOrderStatus

\* UpdateOrderStatusCheck without the `if (!order)` check.
UpdateOrderStatusCheckNoNull(order, newStatus) ==
  IF order = <<>> THEN <<>>
  ELSE IF newStatus \notin validTransitions(order[1].status)
  THEN <<RpcException(<<"Cannot transition from ", order[1].status,
                        " to ", newStatus>>, "NOT_FOUND")>>
  ELSE <<>>

\* The two checks of updateOrderStatus on what findUnique returned:
\* <<>> when the request may go on, else <<the exception thrown>>.
UpdateOrderStatusCheck(order, newStatus) ==
  IF order = <<>>
  THEN <<RpcException(<<"Order not found">>, "NOT_FOUND")>>
  ELSE IF newStatus \notin validTransitions(order[1].status)
  THEN <<RpcException(<<"Cannot transition from ", order[1].status,
                        " to ", newStatus>>, "NOT_FOUND")>>
  ELSE <<>>

\* UpdateOrderStatus announcing the new status as soon as the request
\* arrives, before the validation and the write.
UpdateOrderStatusEmitsFirst(w, orderId, newStatus) ==
  /\ pc[w] = "idle"
  /\ LET order == FindUnique(orderId)
         c == [op |-> "updateOrderStatus", orderId |-> orderId,
               newStatus |-> newStatus]
         thrown == UpdateOrderStatusCheck(order, newStatus)
     IN /\ found' = [found EXCEPT ![w] = order]
        /\ out' = [out EXCEPT ![w] =
                    <<Event("order_status_updated",
                            [orderId |-> orderId, newStatus |-> newStatus])>>]
        /\ IF thrown # <<>> THEN Finish(w, c, thrown[1]) ELSE GoWrite(w, c)
  /\ UNCHANGED <<orders, receipts, updated>>

\* updateOrderStatus up to the validation of what findUnique returned.
UpdateOrderStatus(w, orderId, newStatus) ==
  /\ pc[w] = "idle"
  /\ LET order == FindUnique(orderId)
         c == [op |-> "updateOrderStatus", orderId |-> orderId,
               newStatus |-> newStatus]
         thrown == UpdateOrderStatusCheck(order, newStatus)
     IN /\ found' = [found EXCEPT ![w] = order]
        /\ IF thrown # <<>> THEN Finish(w, c, thrown[1]) ELSE GoWrite(w, c)
  /\ UNCHANGED <<orders, receipts, updated, out>>

\* this.order.update({ where: { id }, data: { status: newStatus } })
UpdateOrderStatusWrite(w) ==
  /\ pc[w] = "write"
  /\ call[w].op = "updateOrderStatus"
  /\ LET id == call[w].orderId
     IN IF id \in DOMAIN orders
        THEN /\ orders' = [orders EXCEPT ![id].status = call[w].newStatus]
             /\ updated' = [updated EXCEPT ![w] = <<orders'[id]>>]
             /\ pc' = [pc EXCEPT ![w] = "emit"]
             /\ UNCHANGED ret
        ELSE /\ pc' = [pc EXCEPT ![w] = "done"]
             /\ ret' = [ret EXCEPT ![w] = PrismaError("P2025")]
             /\ UNCHANGED <<orders, updated>>
  /\ UNCHANGED <<receipts, call, found, out>>

\* StatusUpdatedEvents with the second event tied to the wrong status.
StatusUpdatedEventsWrongStatus(updatedOrder) ==
  <<Event("order_status_updated",
          [orderId |-> updatedOrder.id,
           restaurantId |-> updatedOrder.restaurantId,
           newStatus |-> updatedOrder.status])>>
  \o (IF updatedOrder.status = "OUT_FOR_DELIVERY"
      THEN <<Event("order_ready_for_delivery",
                   [orderId |-> updatedOrder.id,
                    restaurantId |-> updatedOrder.restaurantId,
                    restaurantName |-> updatedOrder.restaurantName,
                    customerId |-> updatedOrder.customerId,
                    items |-> updatedOrder.items])>>
      ELSE <<>>)

\* The events updateOrderStatus emits for the row the update returned.
StatusUpdatedEvents(updatedOrder) ==
  <<Event("order_status_updated",
          [orderId |-> updatedOrder.id,
           restaurantId |-> updatedOrder.restaurantId,
           newStatus |-> updatedOrder.status])>>
  \o (IF updatedOrder.status = "READY_FOR_DELIVERY"
      THEN <<Event("order_ready_for_delivery",
                   [orderId |-> updatedOrder.id,
                    restaurantId |-> updatedOrder.restaurantId,
                    restaurantName |-> updatedOrder.restaurantName,
                    customerId |-> updatedOrder.customerId,
                    items |-> updatedOrder.items])>>
      ELSE <<>>)

\* updateOrderStatus after the store confirmed the write: emit and return.
UpdateOrderStatusEmit(w) ==
  /\ pc[w] = "emit"
  /\ call[w].op = "updateOrderStatus"
  /\ out' = [out EXCEPT ![w] = StatusUpdatedEvents(updated[w][1])]
  /\ ret' = [ret EXCEPT ![w] = Returned(updated[w][1])]
  /\ pc' = [pc EXCEPT ![w] = "done"]
  /\ UNCHANGED <<orders, receipts, call, found, updated>>

\* -------------------------------------------------------------- paidOrder

\* Whether an OrderReceipt row with this orderId exists (orderId is @unique).
ReceiptExists(rcpts, orderId) ==
  \E i \in 1 .. Len(rcpts) : rcpts[i].orderId = orderId

\* PaidOrderUpdate without the unique index on OrderReceipt.orderId.
PaidOrderUpdateNoUnique(ords, rcpts, dto) ==
  IF dto.orderId \notin DOMAIN ords
  THEN [orders |-> ords, receipts |-> rcpts, row |-> <<>>,
        thrown |-> <<PrismaError("P2025")>>]
  ELSE LET row == [ords[dto.orderId] EXCEPT
                     !.status = "CONFIRMED",
                     !.paid = TRUE,
                     !.stripeChargeId = dto.stripePaymentId]
       IN [orders |-> [ords EXCEPT ![dto.orderId] = row],
           receipts |-> Append(rcpts, [orderId |-> dto.orderId,
                                       receiptUrl |-> dto.receiptUrl]),
           row |-> <<row>>,
           thrown |-> <<>>]

\* PaidOrderUpdate writing the order's fields before the nested create is
\* rejected, and not undoing them.
PaidOrderUpdateNoRollback(ords, rcpts, dto) ==
  IF dto.orderId \notin DOMAIN ords
  THEN [orders |-> ords, receipts |-> rcpts, row |-> <<>>,
        thrown |-> <<PrismaError("P2025")>>]
  ELSE LET row == [ords[dto.orderId] EXCEPT
                     !.status = "CONFIRMED",
                     !.paid = TRUE,
                     !.stripeChargeId = dto.stripePaymentId]
       IN IF ReceiptExists(rcpts, dto.orderId)
          THEN [orders |-> [ords EXCEPT ![dto.orderId] = row],
                receipts |-> rcpts, row |-> <<>>,
                thrown |-> <<PrismaError("P2002")>>]
          ELSE [orders |-> [ords EXCEPT ![dto.orderId] = row],
                receipts |-> Append(rcpts, [orderId |-> dto.orderId,
                                            receiptUrl |-> dto.receiptUrl]),
                row |-> <<row>>,
                thrown |-> <<>>]

\* PaidOrderUpdate refusing an order whose status has no edge to CONFIRMED
\* in the transition table.
PaidOrderUpdateChecksTable(ords, rcpts, dto) ==
  IF dto.orderId \notin DOMAIN ords
  THEN [orders |-> ords, receipts |-> rcpts, row |-> <<>>,
        thrown |-> <<PrismaError("P2025")>>]
  ELSE IF \/ ReceiptExists(rcpts, dto.orderId)
          \/ "CONFIRMED" \notin validTransitions(ords[dto.orderId].status)
  THEN [orders |-> ords, receipts |-> rcpts, row |-> <<>>,
        thrown |-> <<PrismaError("P2002")>>]
  ELSE LET row == [ords[dto.orderId] EXCEPT
                     !.status = "CONFIRMED",
                     !.paid = TRUE,
                     !.stripeChargeId = dto.stripePaymentId]
       IN [orders |-> [ords EXCEPT ![dto.orderId] = row],
           receipts |-> Append(rcpts, [orderId |-> dto.orderId,
                                       receiptUrl |-> dto.receiptUrl]),
           row |-> <<row>>,
           thrown |-> <<>>]

\* PaidOrderUpdate with the receipt written by upsert instead of create: a
\* later payment replaces the receipt and the charge.
PaidOrderUpdateUpsert(ords, rcpts, dto) ==
  IF dto.orderId \notin DOMAIN ords
  THEN [orders |-> ords, receipts |-> rcpts, row |-> <<>>,
        thrown |-> <<PrismaError("P2025")>>]
  ELSE LET row == [ords[dto.orderId] EXCEPT
                     !.status = "CONFIRMED",
                     !.paid = TRUE,
                     !.stripeChargeId = dto.stripePaymentId]
           rcpt == [orderId |-> dto.orderId, receiptUrl |-> dto.receiptUrl]
       IN [orders |-> [ords EXCEPT ![dto.orderId] = row],
           receipts |->
             IF ReceiptExists(rcpts, dto.orderId)
             THEN [i \in 1 .. Len(rcpts) |->
                     IF rcpts[i].orderId = dto.orderId THEN rcpt ELSE rcpts[i]]
             ELSE Append(rcpts, rcpt),
           row |-> <<row>>,
           thrown |-> <<>>]

\* The update of paidOrder with its nested OrderReceipt create, as one store
\* operation on (ords, rcpts): the collections afterwards, the row returned
\* (<<>> if none) and the error thrown (<<>> if none).  A missing order or a
\* second receipt for the order rejects the whole operation.
PaidOrderUpdate(ords, rcpts, dto) ==
  IF dto.orderId \notin DOMAIN ords
  THEN [orders |-> ords, receipts |-> rcpts, row |-> <<>>,
        thrown |-> <<PrismaError("P2025")>>]
  ELSE IF ReceiptExists(rcpts, dto.orderId)
  THEN [orders |-> ords, receipts |-> rcpts, row |-> <<>>,
        thrown |-> <<PrismaError("P2002")>>]
  ELSE LET row == [ords[dto.orderId] EXCEPT
                     !.status = "CONFIRMED",
                     !.paid = TRUE,
                     !.stripeChargeId = dto.stripePaymentId]
       IN [orders |-> [ords EXCEPT ![dto.orderId] = row],
           receipts |-> Append(rcpts, [orderId |-> dto.orderId,
                                       receiptUrl |-> dto.receiptUrl]),
           row |-> <<row>>,
           thrown |-> <<>>]

\* paidOrder up to the end of `await this.findOneOrder(...)`, whose result
\* is not looked at.
PaidOrder(w, dto) ==
  /\ pc[w] = "idle"
  /\ found' = [found EXCEPT ![w] = FindUnique(dto.orderId)]
  /\ GoWrite(w, [op |-> "paidOrder", dto |-> dto])
  /\ UNCHANGED <<orders, receipts, updated, out>>

\* this.order.update({ ..., OrderReceipt: { create: ... } })
PaidOrderWrite(w) ==
  /\ pc[w] = "write"
  /\ call[w].op = "paidOrder"
  /\ LET r == PaidOrderUpdate(orders, receipts, call[w].dto)
     IN /\ orders' = r.orders
        /\ receipts' = r.receipts
        /\ updated' = [updated EXCEPT ![w] = r.row]
        /\ IF r.thrown # <<>>
           THEN /\ pc' = [pc EXCEPT ![w] = "done"]
                /\ ret' = [ret EXCEPT ![w] = r.thrown[1]]
           ELSE /\ pc' = [pc EXCEPT ![w] = "emit"]
                /\ UNCHANGED ret
  /\ UNCHANGED <<call, found, out>>

\* paidOrder after the store confirmed the write: emit order_paid.
PaidOrderEmit(w) ==
  /\ pc[w] = "emit"
  /\ call[w].op = "paidOrder"
  /\ out' = [out EXCEPT ![w] = <<Event("order_paid", updated[w][1])>>]
  /\ ret' = [ret EXCEPT ![w] = Returned("undefined")]
  /\ pc' = [pc EXCEPT ![w] = "done"]
  /\ UNCHANGED <<orders, receipts, call, found, updated>>

\* -------------------------------------------------- paymentSessionExpired

\* paymentSessionExpired, called by the controller for a message of either
\* pattern, up to the end of `await this.findOneOrder(...)`, whose result is
\* not looked at.
PaymentSessionExpired(w, pattern, orderId) ==
  /\ pc[w] = "idle"
  /\ found' = [found EXCEPT ![w] = FindUnique(orderId)]
  /\ GoWrite(w, [op |-> "paymentSessionExpired", pattern |-> pattern,
                 orderId |-> orderId])
  /\ UNCHANGED <<orders, receipts, updated, out>>

\* PaymentSessionExpiredWrite failing only an order that still awaits its
\* payment.
PaymentSessionExpiredWritePendingOnly(w) ==
  /\ pc[w] = "write"
  /\ call[w].op = "paymentSessionExpired"
  /\ LET id == call[w].orderId
     IN IF id \in DOMAIN orders
        THEN /\ orders' = IF orders[id].status = "PENDING"
                          THEN [orders EXCEPT ![id].status = "FAILED"]
                          ELSE orders
             /\ updated' = [updated EXCEPT ![w] = <<orders'[id]>>]
             /\ ret' = [ret EXCEPT ![w] = Returned(orders'[id])]
        ELSE /\ ret' = [ret EXCEPT ![w] = PrismaError("P2025")]
             /\ UNCHANGED <<orders, updated>>
  /\ pc' = [pc EXCEPT ![w] = "done"]
  /\ UNCHANGED <<receipts, call, found, out>>

\* this.order.update({ where: { id }, data: { status: FAILED } }) and return.
PaymentSessionExpiredWrite(w) ==
  /\ pc[w] = "write"
  /\ call[w].op = "paymentSessionExpired"
  /\ LET id == call[w].orderId
     IN IF id \in DOMAIN orders
        THEN /\ orders' = [orders EXCEPT ![id].status = "FAILED"]
             /\ updated' = [updated EXCEPT ![w] = <<orders'[id]>>]
             /\ ret' = [ret EXCEPT ![w] = Returned(orders'[id])]
        ELSE /\ ret' = [ret EXCEPT ![w] = PrismaError("P2025")]
             /\ UNCHANGED <<orders, updated>>
  /\ pc' = [pc EXCEPT ![w] = "done"]
  /\ UNCHANGED <<receipts, call, found, out>>

\* -------------------------------------------------------- courierAssigned

\* courierAssigned up to generatePin(), after `await this.findOneOrder(...)`
\* whose result is not looked at; r is what Math.random() returns.
CourierAssigned(w, orderId, courierId, r) ==
  /\ pc[w] = "idle"
  /\ found' = [found EXCEPT ![w] = FindUnique(orderId)]
  /\ GoWrite(w, [op |-> "courierAssigned", orderId |-> orderId,
                 courierId |-> courierId, pin |-> generatePin(r)])
  /\ UNCHANGED <<orders, receipts, updated, out>>

\* CourierAssignedWrite also putting the order out for delivery.
CourierAssignedWriteStartsDelivery(w) ==
  /\ pc[w] = "write"
  /\ call[w].op = "courierAssigned"
  /\ LET id == call[w].orderId
     IN IF id \in DOMAIN orders
        THEN /\ orders' = [orders EXCEPT ![id].courierId = call[w].courierId,
                                         ![id].pin_code = call[w].pin,
                                         ![id].status = "OUT_FOR_DELIVERY"]
             /\ updated' = [updated EXCEPT ![w] = <<orders'[id]>>]
             /\ pc' = [pc EXCEPT ![w] = "emit"]
             /\ UNCHANGED ret
        ELSE /\ pc' = [pc EXCEPT ![w] = "done"]
             /\ ret' = [ret EXCEPT ![w] = PrismaError("P2025")]
             /\ UNCHANGED <<orders, updated>>
  /\ UNCHANGED <<receipts, call, found, out>>

\* this.order.update({ where: { id }, data: { courierId, pin_code: pin } })
CourierAssignedWrite(w) ==
  /\ pc[w] = "write"
  /\ call[w].op = "courierAssigned"
  /\ LET id == call[w].orderId
     IN IF id \in DOMAIN orders
        THEN /\ orders' = [orders EXCEPT ![id].courierId = call[w].courierId,
                                         ![id].pin_code = call[w].pin]
             /\ updated' = [updated EXCEPT ![w] = <<orders'[id]>>]
             /\ pc' = [pc EXCEPT ![w] = "emit"]
             /\ UNCHANGED ret
        ELSE /\ pc' = [pc EXCEPT ![w] = "done"]
             /\ ret' = [ret EXCEPT ![w] = PrismaError("P2025")]
             /\ UNCHANGED <<orders, updated>>
  /\ UNCHANGED <<receipts, call, found, out>>

\* courierAssigned after the store confirmed the write: emit and return.
CourierAssignedEmit(w) ==
  /\ pc[w] = "emit"
  /\ call[w].op = "courierAssigned"
  /\ out' = [out EXCEPT ![w] =
              <<Event("courier_assigned",
                      [order |-> updated[w][1],
                       courierId |-> call[w].courierId,
                       pin |-> call[w].pin])>>]
  /\ ret' = [ret EXCEPT ![w] = Returned(updated[w][1])]
  /\ pc' = [pc EXCEPT ![w] = "done"]
  /\ UNCHANGED <<orders, receipts, call, found, updated>>

\* --------------------------------------------------------- verifyOrderPin

\* The text p is a prefix of the text s.
IsPrefix(p, s) == Len(p) <= Len(s) /\ SubSeq(s, 1, Len(p)) = p

\* VerifyOrderPin comparing with startsWith instead of ===.
VerifyOrderPinPrefix(w, orderId, pin) ==
  /\ pc[w] = "idle"
  /\ LET order == FindUnique(orderId)
         c == [op |-> "verifyOrderPin", orderId |-> orderId, pin |-> pin]
     IN /\ found' = [found EXCEPT ![w] = order]
        /\ IF order = <<>> THEN Finish(w, c, [kind |-> "TypeError"])
           ELSE IF IsPrefix(pin, order[1].pin_code) THEN GoWrite(w, c)
           ELSE Finish(w, c, Returned(FALSE))
  /\ UNCHANGED <<orders, receipts, updated, out>>

\* verifyOrderPin up to the comparison `order.pin_code === pin` on what
\* findOneOrder returned; reading pin_code of null throws a TypeError.
VerifyOrderPin(w, orderId, pin) ==
  /\ pc[w] = "idle"
  /\ LET order == FindUnique(orderId)
         c == [op |-> "verifyOrderPin", orderId |-> orderId, pin |-> pin]
     IN /\ found' = [found EXCEPT ![w] = order]
        /\ IF order = <<>> THEN Finish(w, c, [kind |-> "TypeError"])
           ELSE IF order[1].pin_code = pin THEN GoWrite(w, c)
           ELSE Finish(w, c, Returned(FALSE))
  /\ UNCHANGED <<orders, receipts, updated, out>>

\* this.order.update({ where: { id }, data: { status: DELIVERED } })
VerifyOrderPinWrite(w) ==
  /\ pc[w] = "write"
  /\ call[w].op = "verifyOrderPin"
  /\ LET id == call[w].orderId
     IN IF id \in DOMAIN orders
        THEN /\ orders' = [orders EXCEPT ![id].status = "DELIVERED"]
             /\ updated' = [updated EXCEPT ![w] = <<orders'[id]>>]
             /\ pc' = [pc EXCEPT ![w] = "emit"]
             /\ UNCHANGED ret
        ELSE /\ pc' = [pc EXCEPT ![w] = "done"]
             /\ ret' = [ret EXCEPT ![w] = PrismaError("P2025")]
             /\ UNCHANGED <<orders, updated>>
  /\ UNCHANGED <<receipts, call, found, out>>

\* VerifyOrderPinEmit with the payload of the service's earlier version,
\* which carried neither totalAmount nor customerId.
VerifyOrderPinEmitShort(w) ==
  /\ pc[w] = "emit"
  /\ call[w].op = "verifyOrderPin"
  /\ LET order == found[w][1]
     IN out' = [out EXCEPT ![w] =
                 <<Event("order_delivered",
                         [orderId |-> call[w].orderId,
                          courierId |-> order.courierId,
                          restaurantId |-> order.restaurantId])>>]
  /\ ret' = [ret EXCEPT ![w] = Returned(TRUE)]
  /\ pc' = [pc EXCEPT ![w] = "done"]
  /\ UNCHANGED <<orders, receipts, call, found, updated>>

\* verifyOrderPin after the store confirmed the write: emit order_delivered
\* from the row that was read, and return true.
VerifyOrderPinEmit(w) ==
  /\ pc[w] = "emit"
  /\ call[w].op = "verifyOrderPin"
  /\ LET order == found[w][1]
     IN out' = [out EXCEPT ![w] =
                 <<Event("order_delivered",
                         [orderId |-> call[w].orderId,
                          courierId |-> order.courierId,
                          restaurantId |-> order.restaurantId,
                          totalAmount |-> order.totalAmount,
                          customerId |-> order.customerId])>>]
  /\ ret' = [ret EXCEPT ![w] = Returned(TRUE)]
  /\ pc' = [pc EXCEPT ![w] = "done"]
  /\ UNCHANGED <<orders, receipts, call, found, updated>>

\* ------------------------------------------------------------ removeOrder

\* RemoveOrder refusing an order whose status has no edge to CANCELLED in
\* the transition table.
RemoveOrderChecksTable(w, id) ==
  /\ pc[w] = "idle"
  /\ LET order == FindUnique(id)
         c == [op |-> "removeOrder", orderId |-> id]
     IN /\ found' = [found EXCEPT ![w] = order]
        /\ IF order = <<>>
           THEN Finish(w, c, RpcException(<<"Order not found">>, "NOT_FOUND"))
           ELSE IF "CANCELLED" \notin validTransitions(order[1].status)
           THEN Finish(w, c, RpcException(<<"Cannot transition from ",
                                            order[1].status, " to ",
                                            "CANCELLED">>, "NOT_FOUND"))
           ELSE GoWrite(w, c)
  /\ UNCHANGED <<orders, receipts, updated, out>>

\* removeOrder up to the null check on what findOneOrder returned.
RemoveOrder(w, id) ==
  /\ pc[w] = "idle"
  /\ LET order == FindUnique(id)
         c == [op |-> "removeOrder", orderId |-> id]
     IN /\ found' = [found EXCEPT ![w] = order]
        /\ IF order = <<>>
           THEN Finish(w, c, RpcException(<<"Order not found">>, "NOT_FOUND"))
           ELSE GoWrite(w, c)
  /\ UNCHANGED <<orders, receipts, updated, out>>

\* RemoveOrderWrite deleting the OrderItem rows of the cancelled order.
RemoveOrderWriteDeletesItems(w) ==
  /\ pc[w] = "write"
  /\ call[w].op = "removeOrder"
  /\ LET id == call[w].orderId
     IN IF id \in DOMAIN orders
        THEN /\ orders' = [orders EXCEPT ![id].status = "CANCELLED",
                                         ![id].items = <<>>]
             /\ updated' = [updated EXCEPT ![w] = <<orders'[id]>>]
             /\ pc' = [pc EXCEPT ![w] = "emit"]
             /\ UNCHANGED ret
        ELSE /\ pc' = [pc EXCEPT ![w] = "done"]
             /\ ret' = [ret EXCEPT ![w] = PrismaError("P2025")]
             /\ UNCHANGED <<orders, updated>>
  /\ UNCHANGED <<receipts, call, found, out>>

\* this.order.update({ where: { id }, data: { status: CANCELLED } })
RemoveOrderWrite(w) ==
  /\ pc[w] = "write"
  /\ call[w].op = "removeOrder"
  /\ LET id == call[w].orderId
     IN IF id \in DOMAIN orders
        THEN /\ orders' = [orders EXCEPT ![id].status = "CANCELLED"]
             /\ updated' = [updated EXCEPT ![w] = <<orders'[id]>>]
             /\ pc' = [pc EXCEPT ![w] = "emit"]
             /\ UNCHANGED ret
        ELSE /\ pc' = [pc EXCEPT ![w] = "done"]
             /\ ret' = [ret EXCEPT ![w] = PrismaError("P2025")]
             /\ UNCHANGED <<orders, updated>>
  /\ UNCHANGED <<receipts, call, found, out>>

\* removeOrder after the store confirmed the write: emit and return.
RemoveOrderEmit(w) ==
  /\ pc[w] = "emit"
  /\ call[w].op = "removeOrder"
  /\ out' = [out EXCEPT ![w] =
              <<Event("order_status_updated",
                      [orderId |-> updated[w][1].id,
                       restaurantId |-> found[w][1].restaurantId,
                       newStatus |-> updated[w][1].status])>>]
  /\ ret' = [ret EXCEPT ![w] = Returned(updated[w][1])]
  /\ pc' = [pc EXCEPT ![w] = "done"]
  /\ UNCHANGED <<orders, receipts, call, found, updated>>

\* ----------------------------------------------------------------- return

\* The outcome has been handed to the caller; the worker is free again.
Return(w) ==
  /\ pc[w] = "done"
  /\ pc' = [pc EXCEPT ![w] = "idle"]
  /\ call' = [call EXCEPT ![w] = NoCall]
  /\ found' = [found EXCEPT ![w] = <<>>]
  /\ updated' = [updated EXCEPT ![w] = <<>>]
  /\ ret' = [ret EXCEPT ![w] = NoRet]
  /\ out' = [out EXCEPT ![w] = <<>>]
  /\ UNCHANGED <<orders, receipts>>

\* --------------------------------------------------------- specifications

\* The payloads of payment_succeeded: a PaidOrderDto with its order id.
PaidOrderInputs ==
  {[orderId |-> id, stripePaymentId |-> d.stripePaymentId,
    receiptUrl |-> d.receiptUrl] : id \in OrderIds, d \in PaidOrderDtos}

\* The requests of the controller, served by worker w.
Request(w) ==
  \/ \E dto \in CreateOrderDtos : CreateOrder(w, dto)
  \/ \E id \in OrderIds, s \in OrderStatus : UpdateOrderStatus(w, id, s)
  \/ \E dto \in PaidOrderInputs : PaidOrder(w, dto)
  \/ \E p \in SessionPatterns, id \in OrderIds :
       PaymentSessionExpired(w, p, id)
  \/ \E id \in OrderIds, k \in CourierIds, r \in RandomValues :
       CourierAssigned(w, id, k, r)
  \/ \E id \in OrderIds, pin \in PinInputs : VerifyOrderPin(w, id, pin)
  \/ \E id \in OrderIds : RemoveOrder(w, id)

\* The continuations of the requests of worker w.
Continue(w) ==
  \/ CreateOrderEmit(w)
  \/ UpdateOrderStatusWrite(w)
  \/ UpdateOrderStatusEmit(w)
  \/ PaidOrderWrite(w)
  \/ PaidOrderEmit(w)
  \/ PaymentSessionExpiredWrite(w)
  \/ CourierAssignedWrite(w)
  \/ CourierAssignedEmit(w)
  \/ VerifyOrderPinWrite(w)
  \/ VerifyOrderPinEmit(w)
  \/ RemoveOrderWrite(w)
  \/ RemoveOrderEmit(w)
  \/ Return(w)

\* One request at a time: every operation of the service, in any order.
Next == Request("a") \/ Continue("a")

Spec == Init /\ [][Next]_vars

\* Two requests at a time, both updateOrderStatus (after createOrder).
UpdateStep(w) ==
  \/ \E dto \in CreateOrderDtos : CreateOrder(w, dto)
  \/ CreateOrderEmit(w)
  \/ \E id \in OrderIds, s \in OrderStatus : UpdateOrderStatus(w, id, s)
  \/ UpdateOrderStatusWrite(w)
  \/ UpdateOrderStatusEmit(w)
  \/ Return(w)

NextUpdate == \E w \in Workers : UpdateStep(w)

SpecUpdate == Init /\ [][NextUpdate]_vars

\* The payloads of payment_succeeded the PaidOrderDto admits: stripePaymentId
\* is only required to be a string, so the empty string is among them.
PaidOrderInputsAny ==
  PaidOrderInputs
    \cup {[orderId |-> id, stripePaymentId |-> "", receiptUrl |-> "url_1"] :
            id \in OrderIds}

\* Two requests at a time, both paidOrder (after createOrder).
PaidStep(w) ==
  \/ \E dto \in CreateOrderDtos : CreateOrder(w, dto)
  \/ CreateOrderEmit(w)
  \/ \E dto \in PaidOrderInputsAny : PaidOrder(w, dto)
  \/ PaidOrderWrite(w)
  \/ PaidOrderEmit(w)
  \/ Return(w)

NextPaid == \E w \in Workers : PaidStep(w)

SpecPaid == Init /\ [][NextPaid]_vars

\* createOrder alone, one request at a time, over the generated payloads.
CreateStep(w) ==
  \/ \E dto \in CreateOrderInputs : CreateOrder(w, dto)
  \/ CreateOrderEmit(w)
  \/ Return(w)

NextCreate == CreateStep("a")

SpecCreate == Init /\ [][NextCreate]_vars

\* The result of createOrder handed back to its caller.
ReturnCreate(w) == call[w].op = "createOrder" /\ Return(w)

\* Two payment_succeeded notifications, one per worker, in flight together
\* (after createOrder): a worker that served one serves nothing after it.
PaidOnceStep(w) ==
  \/ \E dto \in CreateOrderDtos : CreateOrder(w, dto)
  \/ CreateOrderEmit(w)
  \/ ReturnCreate(w)
  \/ \E dto \in PaidOrderInputs : PaidOrder(w, dto)
  \/ PaidOrderWrite(w)
  \/ PaidOrderEmit(w)

NextPaidOnce == \E w \in Workers : PaidOnceStep(w)

SpecPaidOnce == Init /\ [][NextPaidOnce]_vars

\* ----------------------------------------------------------------- claims

\* The transition table as the specification lists it.
ListedFor(s) ==
  CASE s = "PENDING" -> {"CONFIRMED", "CANCELLED", "FAILED"}
    [] s = "CONFIRMED" -> {"PREPARING", "CANCELLED"}
    [] s = "PREPARING" -> {"READY_FOR_DELIVERY"}
    [] s = "READY_FOR_DELIVERY" -> {"OUT_FOR_DELIVERY"}
    [] s = "OUT_FOR_DELIVERY" -> {"DELIVERED", "FAILED"}
    [] OTHER -> {}

TerminalStatuses == {"DELIVERED", "CANCELLED", "FAILED"}

\* Worker w takes up a request in this step.
CallStep(w) == pc[w] = "idle" /\ pc'[w] # "idle"

\* Worker w takes up updateOrderStatus in this step.
UpdateCallStep(w) == CallStep(w) /\ call'[w].op = "updateOrderStatus"

\* Worker w's store write happens in this step.
WriteStep(w) == pc[w] = "write" /\ pc'[w] # "write"

\* The text s occurs in the message.
Names(message, s) == \E i \in 1 .. Len(message) : message[i] = s

\* The outcome r is the failure "InvalidTransition" naming both statuses.
IsInvalidTransition(r, from, to) ==
  /\ r.kind = "RpcException"
  /\ Names(r.message, from)
  /\ Names(r.message, to)

\* The outcome r is the failure "NotFound".
IsNotFound(r) ==
  /\ r.kind = "RpcException"
  /\ r.message = <<"Order not found">>
  /\ r.status = "NOT_FOUND"

\* The number of OrderReceipt rows of an order.
ReceiptCount(rcpts, id) ==
  Cardinality({i \in 1 .. Len(rcpts) : rcpts[i].orderId = id})

\* C1: every change of an order's status goes from a status S to a status
\* listed for S in the transition table, whatever operation makes it.
C1_EveryChangeFollowsTable ==
  [][\A id \in DOMAIN orders :
       orders'[id].status # orders[id].status
         => orders'[id].status \in ListedFor(orders[id].status)]_vars

\* C2: updateOrderStatus on an existing order with status S and a requested
\* status T not listed for S ends with the InvalidTransition failure naming
\* S and T, with the store unchanged and no event emitted.
C2_InvalidTransitionRejected ==
  [][\A w \in Workers :
       (/\ UpdateCallStep(w)
        /\ call'[w].orderId \in DOMAIN orders
        /\ call'[w].newStatus
             \notin ListedFor(orders[call'[w].orderId].status))
       => /\ pc'[w] = "done"
          /\ IsInvalidTransition(ret'[w], orders[call'[w].orderId].status,
                                 call'[w].newStatus)
          /\ orders' = orders
          /\ receipts' = receipts
          /\ out' = out
          /\ out'[w] = <<>>]_vars

\* C2 witness: a jump from PENDING to DELIVERED has been rejected.
C2_Witness ==
  \E w \in Workers :
    /\ pc[w] = "done"
    /\ call[w].op = "updateOrderStatus"
    /\ call[w].newStatus = "DELIVERED"
    /\ found[w] # <<>>
    /\ found[w][1].status = "PENDING"
    /\ orders[call[w].orderId].status = "PENDING"
    /\ IsInvalidTransition(ret[w], "PENDING", "DELIVERED")
    /\ out[w] = <<>>

\* Worker w's updateOrderStatus has succeeded.
UpdateSucceeded(w) ==
  /\ pc[w] = "done"
  /\ call[w].op = "updateOrderStatus"
  /\ ret[w].kind = "ok"

\* C3: of two concurrent updateOrderStatus calls on the same order that
\* target different statuses from the status both read, at most one succeeds.
C3_AtMostOneSucceeds ==
  \A w1, w2 \in Workers :
    (/\ w1 # w2
     /\ UpdateSucceeded(w1)
     /\ UpdateSucceeded(w2)
     /\ call[w1].orderId = call[w2].orderId
     /\ call[w1].newStatus # call[w2].newStatus)
    => found[w1][1].status # found[w2][1].status

\* C4: updateOrderStatus on an order whose status is DELIVERED, CANCELLED or
\* FAILED fails for every requested status and leaves the order as it is.
C4_TerminalRejectsUpdate ==
  [][\A w \in Workers :
       (/\ UpdateCallStep(w)
        /\ call'[w].orderId \in DOMAIN orders
        /\ orders[call'[w].orderId].status \in TerminalStatuses)
       => /\ pc'[w] = "done"
          /\ ret'[w].kind = "RpcException"
          /\ orders' = orders]_vars

\* C4 witness: an update of a DELIVERED order has been rejected.
C4_Witness ==
  \E w \in Workers :
    /\ pc[w] = "done"
    /\ call[w].op = "updateOrderStatus"
    /\ found[w] # <<>>
    /\ found[w][1].status = "DELIVERED"
    /\ ret[w].kind = "RpcException"
    /\ orders[call[w].orderId].status = "DELIVERED"

\* C5: once an order's status is DELIVERED, CANCELLED or FAILED, no step of
\* any operation changes it.
C5_TerminalIsAbsorbing ==
  [][\A id \in DOMAIN orders :
       orders[id].status \in TerminalStatuses
         => orders'[id].status = orders[id].status]_vars

\* C6: a successful updateOrderStatus has emitted one order_status_updated
\* event with the order id, the restaurant id and the new status, followed
\* by one order_ready_for_delivery event exactly when the new status is
\* READY_FOR_DELIVERY, and nothing else.
C6_UpdateEvents ==
  \A w \in Workers :
    UpdateSucceeded(w) =>
      LET id == call[w].orderId
          t == call[w].newStatus
      IN /\ Len(out[w]) = (IF t = "READY_FOR_DELIVERY" THEN 2 ELSE 1)
         /\ out[w][1] = [name |-> "order_status_updated",
                         payload |-> [orderId |-> id,
                                      restaurantId |-> orders[id].restaurantId,
                                      newStatus |-> t]]
         /\ t = "READY_FOR_DELIVERY" =>
              /\ out[w][2].name = "order_ready_for_delivery"
              /\ out[w][2].payload.orderId = id
              /\ out[w][2].payload.restaurantId = orders[id].restaurantId

\* C6 witness: an update to READY_FOR_DELIVERY has emitted its two events.
C6_Witness ==
  \E w \in Workers :
    /\ UpdateSucceeded(w)
    /\ call[w].newStatus = "READY_FOR_DELIVERY"
    /\ Len(out[w]) = 2

\* C7: updateOrderStatus with an order id the store does not hold ends with
\* the NotFound failure, emits no event and changes no row.
C7_UnknownOrderNotFound ==
  [][\A w \in Workers :
       (UpdateCallStep(w) /\ call'[w].orderId \notin DOMAIN orders)
       => /\ pc'[w] = "done"
          /\ IsNotFound(ret'[w])
          /\ orders' = orders
          /\ receipts' = receipts
          /\ out' = out
          /\ out'[w] = <<>>]_vars

\* C7 witness: an update of an unknown order was rejected while the store
\* holds another order.
C7_Witness ==
  \E w \in Workers :
    /\ pc[w] = "done"
    /\ call[w].op = "updateOrderStatus"
    /\ call[w].orderId \notin DOMAIN orders
    /\ IsNotFound(ret[w])
    /\ out[w] = <<>>
    /\ orders # <<>>

\* C8: a successful updateOrderStatus(order, T) leaves the status T, and
\* updateOrderStatus(order, T) on an order whose status is T (the same
\* request again, nothing in between) ends with the InvalidTransition
\* failure, leaves the status T and emits no event.
C8_RetryIsRejected ==
  [][\A w \in Workers :
       /\ (WriteStep(w) /\ call[w].op = "updateOrderStatus"
             /\ pc'[w] = "emit")
          => orders'[call[w].orderId].status = call[w].newStatus
       /\ (/\ UpdateCallStep(w)
           /\ call'[w].orderId \in DOMAIN orders
           /\ orders[call'[w].orderId].status = call'[w].newStatus)
          => /\ pc'[w] = "done"
             /\ IsInvalidTransition(ret'[w], call'[w].newStatus,
                                    call'[w].newStatus)
             /\ orders' = orders
             /\ out'[w] = <<>>]_vars

\* C8 witness: a request for PREPARING, the status only a successful
\* updateOrderStatus writes, has been rejected on a PREPARING order.
C8_Witness ==
  \E w \in Workers :
    /\ pc[w] = "done"
    /\ call[w].op = "updateOrderStatus"
    /\ call[w].newStatus = "PREPARING"
    /\ found[w] # <<>>
    /\ found[w][1].status = "PREPARING"
    /\ IsInvalidTransition(ret[w], "PREPARING", "PREPARING")
    /\ orders[call[w].orderId].status = "PREPARING"
    /\ out[w] = <<>>

\* C9: no order ever has more than one OrderReceipt.
C9_AtMostOneReceipt ==
  \A id \in OrderIds : ReceiptCount(receipts, id) <= 1

\* Worker w's paidOrder was rejected for an order that has its receipt.
SecondPaidOrderRejected(w) ==
  /\ pc[w] = "done"
  /\ call[w].op = "paidOrder"
  /\ ret[w].kind = "PrismaError"
  /\ call[w].dto.orderId \in DOMAIN orders
  /\ ReceiptCount(receipts, call[w].dto.orderId) = 1

\* C9 witness: paidOrder has been called again for a paid order.
C9_Witness == \E w \in Workers : SecondPaidOrderRejected(w)

\* C10: the first paidOrder of an order stores its charge reference with
\* paid = true and one receipt; from then on the charge reference, the paid
\* flag and the single receipt stay as they are, so after paidOrder with c1
\* and then c2 the order has one receipt, paid = true and stripeChargeId c1.
C10_FirstChargeKept ==
  [][/\ \A w \in Workers :
          (/\ WriteStep(w)
           /\ call[w].op = "paidOrder"
           /\ call[w].dto.orderId \in DOMAIN orders
           /\ ReceiptCount(receipts, call[w].dto.orderId) = 0)
          => LET id == call[w].dto.orderId
             IN /\ orders'[id].stripeChargeId = call[w].dto.stripePaymentId
                /\ orders'[id].paid
                /\ ReceiptCount(receipts', id) = 1
     /\ \A id \in DOMAIN orders :
          ReceiptCount(receipts, id) >= 1
          => /\ orders'[id].stripeChargeId = orders[id].stripeChargeId
             /\ orders'[id].paid
             /\ ReceiptCount(receipts', id) = 1]_vars

\* C10 witness: paidOrder with ch_2 has run on an order paid with ch_1.
C10_Witness ==
  \E w \in Workers :
    /\ SecondPaidOrderRejected(w)
    /\ call[w].dto.stripePaymentId = "ch_2"
    /\ orders[call[w].dto.orderId].stripeChargeId = "ch_1"
    /\ orders[call[w].dto.orderId].paid

\* The charge reference c is set and not empty.
NonEmptyCharge(c) == c # NullCharge /\ c # ""

\* Worker w's paidOrder write happens in this step, for order id.
PaidWriteStep(w, id) ==
  /\ WriteStep(w)
  /\ call[w].op = "paidOrder"
  /\ call[w].dto.orderId = id

\* C11: for every order paid is true exactly when stripeChargeId is a
\* non-empty charge reference; the two change only in the write of a
\* paidOrder, together, and only for an order that was not paid before.
C11_PaidIffChargeReference ==
  [][\A id \in DOMAIN orders' :
       /\ orders'[id].paid <=> NonEmptyCharge(orders'[id].stripeChargeId)
       /\ (/\ id \in DOMAIN orders
           /\ \/ orders'[id].paid # orders[id].paid
              \/ orders'[id].stripeChargeId # orders[id].stripeChargeId)
          => /\ \E w \in Workers : PaidWriteStep(w, id)
             /\ ~orders[id].paid
             /\ orders[id].stripeChargeId = NullCharge
             /\ orders'[id].paid]_vars

\* Worker w's request emits its events and returns in this step.
EmitStep(w) == pc[w] = "emit" /\ pc'[w] = "done"

\* C12: paidOrder on an existing order without a receipt succeeds whatever
\* the order's status: its one write sets status CONFIRMED, paid true and
\* stripeChargeId to the reference supplied and adds the receipt, and it
\* then emits exactly one order_paid event carrying the updated order.
C12_PaidOrderEffect ==
  [][\A w \in Workers :
       /\ (/\ WriteStep(w)
           /\ call[w].op = "paidOrder"
           /\ call[w].dto.orderId \in DOMAIN orders
           /\ ReceiptCount(receipts, call[w].dto.orderId) = 0)
          => LET id == call[w].dto.orderId
             IN /\ pc'[w] = "emit"
                /\ orders' = [orders EXCEPT
                               ![id].status = "CONFIRMED",
                               ![id].paid = TRUE,
                               ![id].stripeChargeId =
                                  call[w].dto.stripePaymentId]
                /\ receipts' =
                     Append(receipts,
                            [orderId |-> id,
                             receiptUrl |-> call[w].dto.receiptUrl])
       /\ (EmitStep(w) /\ call[w].op = "paidOrder")
          => /\ ret'[w].kind = "ok"
             /\ out'[w] = <<[name |-> "order_paid",
                             payload |-> orders[call[w].dto.orderId]]>>
             /\ out'[w][1].payload.status = "CONFIRMED"
             /\ out'[w][1].payload.paid]_vars

\* C12 witness: paidOrder has succeeded on an order that was DELIVERED.
C12_Witness ==
  \E w \in Workers :
    /\ pc[w] = "done"
    /\ call[w].op = "paidOrder"
    /\ ret[w].kind = "ok"
    /\ found[w] # <<>>
    /\ found[w][1].status = "DELIVERED"
    /\ orders[call[w].dto.orderId].status = "CONFIRMED"
    /\ Len(out[w]) = 1

\* C13: paidOrder with an order id the store does not hold completes
\* without an error, adds no order and no receipt and emits no event.
C13_PaidOrderUnknownCompletes ==
  [][\A w \in Workers :
       (/\ WriteStep(w)
        /\ call[w].op = "paidOrder"
        /\ call[w].dto.orderId \notin DOMAIN orders)
       => /\ ret'[w].kind = "ok"
          /\ orders' = orders
          /\ receipts' = receipts
          /\ out' = out]_vars

\* C14: courierAssigned with an order id the store does not hold returns
\* without an error, changes nothing stored and emits no event.
C14_CourierAssignedUnknownReturns ==
  [][\A w \in Workers :
       (/\ WriteStep(w)
        /\ call[w].op = "courierAssigned"
        /\ call[w].orderId \notin DOMAIN orders)
       => /\ ret'[w].kind = "ok"
          /\ orders' = orders
          /\ receipts' = receipts
          /\ out' = out]_vars

\* Worker w has finished verifyOrderPin on an order the store holds.
VerifyDone(w) ==
  /\ pc[w] = "done"
  /\ call[w].op = "verifyOrderPin"
  /\ found[w] # <<>>

\* C15: verifyOrderPin with a PIN equal to the stored pin_code has set the
\* status DELIVERED, emitted exactly one order_delivered event with the order
\* id, courier id, restaurant id, total amount and customer id, and returned
\* true.
C15_CorrectPinDelivers ==
  \A w \in Workers :
    (VerifyDone(w) /\ found[w][1].pin_code = call[w].pin)
    => LET id == call[w].orderId
       IN /\ ret[w].kind = "ok"
          /\ ret[w].value = TRUE
          /\ orders[id].status = "DELIVERED"
          /\ out[w] = <<[name |-> "order_delivered",
                         payload |->
                           [orderId |-> id,
                            courierId |-> orders[id].courierId,
                            restaurantId |-> orders[id].restaurantId,
                            totalAmount |-> orders[id].totalAmount,
                            customerId |-> orders[id].customerId]]>>

\* C15 witness: the PIN generated for courier k1 has been verified.
C15_Witness ==
  \E w \in Workers :
    /\ VerifyDone(w)
    /\ call[w].pin # <<>>
    /\ found[w][1].pin_code = call[w].pin
    /\ found[w][1].courierId = "k1"
    /\ ret[w].kind = "ok"
    /\ orders[call[w].orderId].status = "DELIVERED"

\* C16: verifyOrderPin with a PIN different from the stored pin_code returns
\* false at once, changes no row and emits no event, so nothing builds up
\* over repeated wrong guesses.
C16_WrongPinChangesNothing ==
  [][\A w \in Workers :
       (/\ CallStep(w)
        /\ call'[w].op = "verifyOrderPin"
        /\ call'[w].orderId \in DOMAIN orders
        /\ orders[call'[w].orderId].pin_code # call'[w].pin)
       => /\ pc'[w] = "done"
          /\ ret'[w].kind = "ok"
          /\ ret'[w].value = FALSE
          /\ orders' = orders
          /\ receipts' = receipts
          /\ out' = out]_vars

\* C16 witness: a wrong non-empty PIN was refused for an order with a PIN.
C16_Witness ==
  \E w \in Workers :
    /\ VerifyDone(w)
    /\ call[w].pin # <<>>
    /\ found[w][1].pin_code # <<>>
    /\ found[w][1].pin_code # call[w].pin
    /\ ret[w].kind = "ok"
    /\ ret[w].value = FALSE
    /\ orders[call[w].orderId] = found[w][1]
    /\ out[w] = <<>>

\* The value of a decimal digit character.
DigitValue(c) ==
  CHOOSE d \in 0 .. 9 :
    <<"0", "1", "2", "3", "4", "5", "6", "7", "8", "9">>[d + 1] = c

\* The text p is four decimal digits that read as a number in 1000..9999.
IsFourDigitPin(p) ==
  /\ Len(p) = 4
  /\ \A i \in 1 .. 4 : p[i] \in {"0", "1", "2", "3", "4", "5", "6", "7", "8", "9"}
  /\ LET n == 1000 * DigitValue(p[1]) + 100 * DigitValue(p[2])
                + 10 * DigitValue(p[3]) + DigitValue(p[4])
     IN n >= 1000 /\ n <= 9999

\* Values of Math.random() spread over [0, 1), as <<numerator, denominator>>.
RandomSamples == RandomValues \cup {<<k, 16>> : k \in 0 .. 15}

\* Worker w is serving courierAssigned for an order the store holds.
CourierCall(w) ==
  /\ call[w].op = "courierAssigned"
  /\ call[w].orderId \in DOMAIN orders

\* C17: courierAssigned on an existing order stores the courier id and a
\* fresh four-digit pin_code (the decimal text of a number in 1000..9999) in
\* one write, nothing of the order being written before it, and emits
\* exactly one courier_assigned event with the stored pin and courier id.
\* The generator itself is sampled over [0, 1) while the store is empty.
C17_CourierAssignedEffect ==
  /\ (DOMAIN orders = {})
     => \A r \in RandomSamples : IsFourDigitPin(generatePin(r))
  /\ \A w \in Workers :
       /\ (CourierCall(w) /\ pc[w] = "write")
          => orders[call[w].orderId] = found[w][1]
       /\ (CourierCall(w) /\ pc[w] \in {"emit", "done"})
          => LET id == call[w].orderId
             IN /\ orders[id] = [found[w][1] EXCEPT
                                   !.courierId = call[w].courierId,
                                   !.pin_code = orders[id].pin_code]
                /\ IsFourDigitPin(orders[id].pin_code)
       /\ (CourierCall(w) /\ pc[w] = "emit") => out[w] = <<>>
       /\ (CourierCall(w) /\ pc[w] = "done")
          => LET id == call[w].orderId
             IN /\ ret[w].kind = "ok"
                /\ out[w] = <<[name |-> "courier_assigned",
                               payload |->
                                 [order |-> orders[id],
                                  courierId |-> orders[id].courierId,
                                  pin |-> orders[id].pin_code]]>>

\* C17 witness: courier k1 has been assigned with the PIN 9999.
C17_Witness ==
  \E w \in Workers :
    /\ CourierCall(w)
    /\ pc[w] = "done"
    /\ orders[call[w].orderId].courierId = "k1"
    /\ orders[call[w].orderId].pin_code = <<"9", "9", "9", "9">>
    /\ Len(out[w]) = 1

\* C18: for every order, pin_code is non-empty only if courierId is
\* non-empty.
C18_PinOnlyWithCourier ==
  \A id \in DOMAIN orders :
    orders[id].pin_code # <<>> => orders[id].courierId # ""

\* C19: once an order's pin_code is non-empty, no step changes its pin_code
\* or its courierId.
C19_PinNeverRegenerated ==
  [][\A id \in DOMAIN orders :
       orders[id].pin_code # <<>>
         => /\ orders'[id].pin_code = orders[id].pin_code
            /\ orders'[id].courierId = orders[id].courierId]_vars

\* C20: removeOrder with an order id the store does not hold ends with the
\* NotFound failure, nothing changed and nothing emitted; on an existing
\* order in any status it goes on to write status CANCELLED, changing
\* nothing else, and then emits exactly one order_status_updated event with
\* newStatus CANCELLED.
C20_RemoveOrderEffect ==
  [][\A w \in Workers :
       /\ (CallStep(w) /\ call'[w].op = "removeOrder")
          => IF call'[w].orderId \in DOMAIN orders
             THEN pc'[w] = "write" /\ orders' = orders /\ out' = out
             ELSE /\ pc'[w] = "done"
                  /\ IsNotFound(ret'[w])
                  /\ orders' = orders
                  /\ receipts' = receipts
                  /\ out' = out
       /\ (WriteStep(w) /\ call[w].op = "removeOrder")
          => /\ pc'[w] = "emit"
             /\ orders' = [orders EXCEPT ![call[w].orderId].status = "CANCELLED"]
             /\ receipts' = receipts
             /\ out' = out
       /\ (EmitStep(w) /\ call[w].op = "removeOrder")
          => /\ ret'[w].kind = "ok"
             /\ orders' = orders
             /\ out'[w] =
                  <<[name |-> "order_status_updated",
                     payload |->
                       [orderId |-> call[w].orderId,
                        restaurantId |-> orders[call[w].orderId].restaurantId,
                        newStatus |-> "CANCELLED"]]>>]_vars

\* C20 witness: removeOrder has cancelled an order that was DELIVERED.
C20_Witness ==
  \E w \in Workers :
    /\ pc[w] = "done"
    /\ call[w].op = "removeOrder"
    /\ found[w] # <<>>
    /\ found[w][1].status = "DELIVERED"
    /\ orders[call[w].orderId].status = "CANCELLED"
    /\ Len(out[w]) = 1
    /\ out[w][1].payload.newStatus = "CANCELLED"

\* Worker w has finished paymentSessionExpired for an order the store held
\* when the request arrived.
SessionExpiredDone(w) ==
  /\ pc[w] = "done"
  /\ call[w].op = "paymentSessionExpired"
  /\ found[w] # <<>>

\* C21: paymentSessionExpired on an existing order, whatever its status and
\* whichever of the two notifications brought it, leaves the order with
\* status FAILED and every other field as it was, and emits no event.
C21_SessionExpiredFails ==
  \A w \in Workers :
    SessionExpiredDone(w)
      => /\ call[w].pattern \in SessionPatterns
         /\ orders[call[w].orderId] = [found[w][1] EXCEPT !.status = "FAILED"]
         /\ ret[w].kind = "ok"
         /\ out[w] = <<>>

\* C21 witness: an abandoned payment session has failed a DELIVERED order.
C21_Witness ==
  \E w \in Workers :
    /\ SessionExpiredDone(w)
    /\ call[w].pattern = "payment_session_abandoned"
    /\ found[w][1].status = "DELIVERED"
    /\ orders[call[w].orderId].status = "FAILED"

\* The sum of price * quantity over the first n items.
RECURSIVE LineTotals(_, _)
LineTotals(items, n) ==
  IF n = 0 THEN 0
  ELSE items[n].price * items[n].quantity + LineTotals(items, n - 1)

\* Worker w is serving createOrder and the store has confirmed its write.
CreateWritten(w) ==
  /\ call[w].op = "createOrder"
  /\ pc[w] \in {"emit", "done"}

\* C22: the totalAmount createOrder stores is the sum of price * quantity
\* over the items, plus the delivery fee unless loyalty points are used.
C22_TotalAmount ==
  \A w \in Workers :
    CreateWritten(w)
      => LET dto == call[w].dto
             sum == LineTotals(dto.items, Len(dto.items))
         IN orders[updated[w][1].id].totalAmount =
              IF dto.useLoyaltyPoints THEN sum ELSE sum + dto.deliveryFee

\* C22 witness: an order of two items with quantities above one, a delivery
\* fee and loyalty points has been stored.
C22_Witness ==
  \E w \in Workers :
    /\ CreateWritten(w)
    /\ Len(call[w].dto.items) = 2
    /\ call[w].dto.items[1].quantity = 2
    /\ call[w].dto.items[1].price = 3
    /\ call[w].dto.deliveryFee = 1
    /\ call[w].dto.useLoyaltyPoints
    /\ orders[updated[w][1].id].totalAmount >= 6

\* The payload is the worked example: items 10 x 2 and 5 x 1, delivery fee 3.
IsWorkedExample(dto) ==
  /\ Len(dto.items) = 2
  /\ dto.items[1].price = 10 /\ dto.items[1].quantity = 2
  /\ dto.items[2].price = 5 /\ dto.items[2].quantity = 1
  /\ dto.deliveryFee = 3

\* C23: createOrder with items 10 x 2 and 5 x 1 and delivery fee 3 stores
\* totalAmount 25 without loyalty points and 22 with them.
C23_WorkedExample ==
  \A w \in Workers :
    (CreateWritten(w) /\ IsWorkedExample(call[w].dto))
      => orders[updated[w][1].id].totalAmount =
           IF call[w].dto.useLoyaltyPoints THEN 22 ELSE 25

\* C23 as amended: createOrder with items 10 x 2 and 5 x 1 and delivery fee
\* 3 stores totalAmount 28 without loyalty points and 25 with them.
C23_WorkedExampleAmended ==
  \A w \in Workers :
    (CreateWritten(w) /\ IsWorkedExample(call[w].dto))
      => orders[updated[w][1].id].totalAmount =
           IF call[w].dto.useLoyaltyPoints THEN 25 ELSE 28

\* C23 witness: the worked example without loyalty points has been stored.
C23_Witness ==
  \E w \in Workers :
    /\ CreateWritten(w)
    /\ IsWorkedExample(call[w].dto)
    /\ ~call[w].dto.useLoyaltyPoints
    /\ pc[w] = "done"

\* C24: a createOrder call adds exactly one order, with a fresh identifier,
\* status PENDING, paid false, no charge reference, no receipt, empty
\* pin_code and courierId and the supplied items, and emits nothing before
\* the write; it then emits exactly one order_created event carrying the
\* payload and the new order id, and returns that id.
C24_CreateOrderEffect ==
  [][\A w \in Workers :
       /\ (CallStep(w) /\ call'[w].op = "createOrder")
          => LET dto == call'[w].dto
                 id == Len(orders')
             IN /\ Len(orders') = Len(orders) + 1
                /\ SubSeq(orders', 1, Len(orders)) = orders
                /\ id \notin DOMAIN orders
                /\ orders'[id].id = id
                /\ \A j \in DOMAIN orders : orders[j].id # id
                /\ orders'[id].status = "PENDING"
                /\ orders'[id].paid = FALSE
                /\ orders'[id].stripeChargeId = NullCharge
                /\ orders'[id].pin_code = <<>>
                /\ orders'[id].courierId = ""
                /\ Len(orders'[id].items) = Len(dto.items)
                /\ \A i \in 1 .. Len(dto.items) :
                     orders'[id].items[i] = dto.items[i]
                /\ receipts' = receipts
                /\ ReceiptCount(receipts', id) = 0
                /\ pc'[w] = "emit"
                /\ out' = out
       /\ (EmitStep(w) /\ call[w].op = "createOrder")
          => LET id == Len(orders)
             IN /\ orders' = orders
                /\ receipts' = receipts
                /\ out'[w] = <<[name |-> "order_created",
                                payload |-> [dto |-> call[w].dto,
                                             orderId |-> id]]>>
                /\ ret'[w].kind = "ok"
                /\ ret'[w].value = [orderId |-> id]]_vars

\* C24 witness: createOrder has returned the id of the order it stored.
C24_Witness ==
  \E w \in Workers :
    /\ pc[w] = "done"
    /\ call[w].op = "createOrder"
    /\ call[w].dto.items # <<>>
    /\ ret[w].kind = "ok"
    /\ ret[w].value.orderId \in DOMAIN orders
    /\ Len(out[w]) = 1

\* C25: a createOrder call with an empty item list is rejected: it ends
\* with a failure, no stored order has an empty item list and no
\* order_created event is emitted for it.
C25_EmptyItemsRejected ==
  /\ \A id \in DOMAIN orders : orders[id].items # <<>>
  /\ \A w \in Workers :
       (call[w].op = "createOrder" /\ call[w].dto.items = <<>>)
         => /\ pc[w] = "done"
            /\ ret[w].kind # "ok"
            /\ out[w] = <<>>

\* The operations that emit events.
EmittingOps ==
  {"createOrder", "updateOrderStatus", "paidOrder", "courierAssigned",
   "verifyOrderPin", "removeOrder"}

\* The store has confirmed the write of worker w's request and holds the row
\* it returned.
WriteConfirmed(w) ==
  /\ updated[w] # <<>>
  /\ updated[w][1].id \in DOMAIN orders
  /\ orders[updated[w][1].id] = updated[w][1]

\* C26: an operation has emitted events only once its store write has been
\* confirmed; while the write is pending, and when the operation or its
\* write failed, it has emitted nothing.
C26_EmitOnlyAfterWrite ==
  \A w \in Workers :
    call[w].op \in EmittingOps
      => /\ out[w] # <<>>
              => (pc[w] = "done" /\ ret[w].kind = "ok" /\ WriteConfirmed(w))
         /\ pc[w] = "emit" => WriteConfirmed(w)
         /\ pc[w] = "write" => (out[w] = <<>> /\ updated[w] = <<>>)
         /\ (pc[w] = "done" /\ ret[w].kind # "ok") => out[w] = <<>>

\* C26 witness: the write of a paidOrder call was rejected and the call has
\* ended without an event.
C26_Witness ==
  \E w \in Workers :
    /\ pc[w] = "done"
    /\ call[w].op = "paidOrder"
    /\ ret[w].kind = "PrismaError"
    /\ found[w] # <<>>
    /\ out[w] = <<>>

\* C27: no step changes the totalAmount or the items of a stored order.
C27_TotalAndItemsFixed ==
  [][\A id \in DOMAIN orders :
       /\ id \in DOMAIN orders'
       /\ orders'[id].totalAmount = orders[id].totalAmount
       /\ orders'[id].items = orders[id].items]_vars

\* C27 witness: an order that was paid, given a courier and delivered holds
\* the amount and the items of its creation.
C27_Witness ==
  \E id \in DOMAIN orders :
    /\ orders[id].status = "DELIVERED"
    /\ orders[id].paid
    /\ orders[id].courierId = "k1"
    /\ orders[id].totalAmount = LineTotals(DtoA.items, Len(DtoA.items))
                                  + DtoA.deliveryFee
    /\ orders[id].items = DtoA.items

\* C28: whenever verifyOrderPin has returned true and delivered an order,
\* that order has a courier and a PIN.
C28_DeliversOnlyAssigned ==
  \A w \in Workers :
    (VerifyDone(w) /\ ret[w].kind = "ok" /\ ret[w].value = TRUE)
      => /\ orders[call[w].orderId].courierId # ""
         /\ orders[call[w].orderId].pin_code # <<>>

\* C29: a verifyOrderPin call on an order that is already DELIVERED, or in
\* another terminal status, emits no order_delivered event.
C29_NoSecondDelivered ==
  \A w \in Workers :
    (VerifyDone(w) /\ found[w][1].status \in TerminalStatuses)
      => \A i \in 1 .. Len(out[w]) : out[w][i].name # "order_delivered"

\* Both workers have finished a paidOrder call for order id, which the
\* store held when each call arrived.
BothPaidDone(id) ==
  \A w \in Workers :
    /\ pc[w] = "done"
    /\ call[w].op = "paidOrder"
    /\ call[w].dto.orderId = id
    /\ found[w] # <<>>

\* The receipts of order id are the single receipt of worker w's call.
OnlyReceiptOf(w, id) ==
  /\ ReceiptCount(receipts, id) = 1
  /\ \A i \in 1 .. Len(receipts) :
       receipts[i].orderId = id
         => receipts[i].receiptUrl = call[w].dto.receiptUrl

\* C30: when two paidOrder calls for the same existing order have both
\* ended, whatever their interleaving, exactly one of them completed its
\* write: it emitted the one order_paid event, the order has the one
\* receipt of that call and its charge reference, and the other call
\* failed without an event.
C30_ConcurrentPaidOrder ==
  \A id \in DOMAIN orders :
    BothPaidDone(id)
      => \E w \in Workers :
           /\ ret[w].kind = "ok"
           /\ Len(out[w]) = 1
           /\ out[w][1].name = "order_paid"
           /\ out[w][1].payload.id = id
           /\ orders[id].paid
           /\ orders[id].stripeChargeId = call[w].dto.stripePaymentId
           /\ OnlyReceiptOf(w, id)
           /\ \A v \in Workers \ {w} :
                /\ ret[v].kind # "ok"
                /\ out[v] = <<>>

\* C30 witness: two calls with different charges both read the unpaid order
\* before either wrote, and both have ended.
C30_Witness ==
  \E id \in DOMAIN orders :
    /\ BothPaidDone(id)
    /\ \A w \in Workers : ~found[w][1].paid
    /\ call["a"].dto.stripePaymentId # call["b"].dto.stripePaymentId
    /\ orders[id].stripeChargeId = call["b"].dto.stripePaymentId

\* C31: no step takes an existing order back to PENDING, an
\* updateOrderStatus call asking for PENDING ends with a failure before its
\* write, and after every step a paid order is not PENDING.
C31_NeverBackToPending ==
  [][/\ \A id \in DOMAIN orders :
          orders[id].status # "PENDING" => orders'[id].status # "PENDING"
     /\ \A id \in DOMAIN orders' :
          orders'[id].paid => orders'[id].status # "PENDING"
     /\ \A w \in Workers :
          (UpdateCallStep(w) /\ call'[w].newStatus = "PENDING")
            => (pc'[w] = "done" /\ ret'[w].kind # "ok")]_vars

\* C31 witness: updateOrderStatus to PENDING was refused for a paid order
\* that had failed.
C31_Witness ==
  \E w \in Workers :
    /\ pc[w] = "done"
    /\ call[w].op = "updateOrderStatus"
    /\ call[w].newStatus = "PENDING"
    /\ found[w] # <<>>
    /\ found[w][1].status = "FAILED"
    /\ orders[call[w].orderId].paid
    /\ ret[w].kind = "RpcException"

\* C32: courierAssigned on an existing order goes on to its write whatever
\* the status; the write changes courierId and pin_code of that order only,
\* leaving status, paid, stripeChargeId, totalAmount, the items, the other
\* orders and the receipts as they were; the call then returns normally.
C32_CourierAssignedFrame ==
  [][\A w \in Workers :
       /\ (CallStep(w) /\ call'[w].op = "courierAssigned"
             /\ call'[w].orderId \in DOMAIN orders)
          => (pc'[w] = "write" /\ orders' = orders /\ receipts' = receipts)
       /\ (WriteStep(w) /\ call[w].op = "courierAssigned"
             /\ call[w].orderId \in DOMAIN orders)
          => LET id == call[w].orderId
             IN /\ pc'[w] = "emit"
                /\ orders' = [orders EXCEPT
                                ![id].courierId = orders'[id].courierId,
                                ![id].pin_code = orders'[id].pin_code]
                /\ orders'[id].status = orders[id].status
                /\ orders'[id].paid = orders[id].paid
                /\ orders'[id].stripeChargeId = orders[id].stripeChargeId
                /\ orders'[id].totalAmount = orders[id].totalAmount
                /\ receipts' = receipts
       /\ (EmitStep(w) /\ call[w].op = "courierAssigned")
          => (ret'[w].kind = "ok" /\ orders' = orders
                /\ receipts' = receipts)]_vars

\* C32 witness: a courier has been assigned to a paid order that was
\* already DELIVERED, which kept its status and its receipt.
C32_Witness ==
  \E w \in Workers :
    /\ CourierCall(w)
    /\ pc[w] = "done"
    /\ ret[w].kind = "ok"
    /\ found[w] # <<>>
    /\ found[w][1].status = "DELIVERED"
    /\ found[w][1].paid
    /\ orders[call[w].orderId].status = "DELIVERED"
    /\ orders[call[w].orderId].courierId = "k1"
    /\ ReceiptCount(receipts, call[w].orderId) = 1

\* The longest chain of listed transitions that starts at status s.
StepsLeft(s) ==
  CASE s = "PENDING" -> 5
    [] s = "CONFIRMED" -> 4
    [] s = "PREPARING" -> 3
    [] s = "READY_FOR_DELIVERY" -> 2
    [] s = "OUT_FOR_DELIVERY" -> 1
    [] OTHER -> 0

\* Worker w's updateOrderStatus write succeeds in this step.
UpdateWriteSucceeds(w) ==
  /\ WriteStep(w)
  /\ call[w].op = "updateOrderStatus"
  /\ pc'[w] = "emit"

\* C33: where only updateOrderStatus changes the status, every successful
\* updateOrderStatus takes the order strictly down the acyclic table, whose
\* longest chain from PENDING has 5 transitions, so that at most 5 succeed;
\* and none succeeds on an order that is in a terminal status.
C33_UpdatesTerminate ==
  [][\A w \in Workers :
       UpdateWriteSucceeds(w)
         => LET id == call[w].orderId
            IN /\ orders[id].status \notin TerminalStatuses
               /\ StepsLeft(orders'[id].status) < StepsLeft(orders[id].status)]_vars

====
